---- MODULE Spec2Model ----
(***************************************************************************)
(* NeoDataSync: the replicated key/value map of                            *)
(* UNeoReplicatedDataComponent (FNeoDataMap / FNeoDataEntry).              *)
(*                                                                         *)
(* The record store (AddOrUpdate, Remove, Find), the schema gate of        *)
(* SetData and the component API are modelled from                         *)
(* Source/NeoDataSync/Private/NeoReplicatedData.cpp and                    *)
(* Source/NeoDataSync/Public/NeoReplicatedData.h.                          *)
(*                                                                         *)
(* The repository delegates dirty tracking and delta computation /         *)
(* application to FastArrayDeltaSerialize (NeoReplicatedData.h:154-157),   *)
(* whose body is not part of the sources.  That part (MarkItemDirty,       *)
(* MarkArrayDirty, ComputeDelta, ApplyDelta, the per-observer baseline)    *)
(* is modelled from sections 3 and 4.3 of the design document.              *)
(***************************************************************************)
EXTENDS Integers, Sequences, FiniteSets, TLC

\* ------------------------------------------------------------------------
\* Bounds
\* ------------------------------------------------------------------------

\* cap of the store's version counter: number of accepted mutations explored
MaxVersion == 3

\* batches that may be in flight to one observer at a time
MaxInFlight == 2

\* ------------------------------------------------------------------------
\* Payload shapes, keys and values
\* ------------------------------------------------------------------------

\* "no struct type" (a null UScriptStruct pointer)
None == "None"

\* FNeoDataDefinition_SI and FNeoDataDefinition_SIF
Shapes == {"SI", "SIF"}

\* FRecordKey: an FInstancedStruct, i.e. a script struct type and its payload
Keys == { [shape |-> "SI", data |-> 1],
          [shape |-> "SI", data |-> 2],
          [shape |-> "SIF", data |-> 1] }

\* FRecordDefinition: an FInstancedStruct payload
Values == { [shape |-> "SI", data |-> 1],
            [shape |-> "SI", data |-> 2],
            [shape |-> "SIF", data |-> 1] }

\* a default-constructed FRecordDefinition (empty payload)
NoValue == [shape |-> None, data |-> 0]

\* FRecordKey::operator== : same struct type and same payload
KeyEq(a, b) == a.shape = b.shape /\ a.data = b.data

\* Key.KeyData.GetScriptStruct() / Value.Payload.GetScriptStruct()
GetScriptStruct(x) == x.shape

\* the observers (client-side component instances)
Observers == {"o1"}

\* ------------------------------------------------------------------------
\* Notifications
\* ------------------------------------------------------------------------

\* UNeoReplicatedDataComponent() sets DataMap.Owner = this
Owner == TRUE

\* OnKeyAdded.Broadcast(Key, Value)
NotifyKeyAdded(Key, Value) == [kind |-> "Added", Key |-> Key, Value |-> Value]

\* OnKeyUpdated.Broadcast(Key, Value)
NotifyKeyUpdated(Key, Value) == [kind |-> "Updated", Key |-> Key, Value |-> Value]

\* OnKeyRemoved.Broadcast(Key)
NotifyKeyRemoved(Key) == [kind |-> "Removed", Key |-> Key, Value |-> NoValue]

\* ------------------------------------------------------------------------
\* FNeoDataMap: the record store
\* ------------------------------------------------------------------------

\* Items.FindByPredicate(Entry.Key == Key): index of the first match, 0 if none
RECURSIVE FindFrom(_, _, _)
FindFrom(items, Key, i) ==
    IF i > Len(items) THEN 0
    ELSE IF KeyEq(items[i].Key, Key) THEN i
    ELSE FindFrom(items, Key, i + 1)

FindByPredicate(items, Key) == FindFrom(items, Key, 1)

\* FNeoDataMap::Find : the value of the first entry with this key, or nullptr
Find(items, Key) ==
    LET Entry == FindByPredicate(items, Key)
    IN  IF Entry # 0 THEN items[Entry].Value ELSE NoValue

\* MarkItemDirty(Entry): the entry gets a freshly allocated replication_version
MarkItemDirty(Entry, clk) == [Entry EXCEPT !.version = clk + 1]

\* faulty variant of AddOrUpdate: the update branch keeps the stored value
AddOrUpdate_KeepOld(items, Key, Value, clk) ==
    LET ExistingEntry == FindByPredicate(items, Key)
    IN  IF ExistingEntry # 0
        THEN [Items  |-> [items EXCEPT ![ExistingEntry] = MarkItemDirty(@, clk)],
              events |-> <<NotifyKeyUpdated(Key, Value)>>]
        ELSE [Items  |-> Append(items,
                             MarkItemDirty([Key |-> Key, Value |-> Value,
                                            version |-> 0], clk)),
              events |-> <<NotifyKeyAdded(Key, Value)>>]

\* faulty variant of AddOrUpdate: writing the value already stored is skipped
AddOrUpdate_SkipSame(items, Key, Value, clk) ==
    LET ExistingEntry == FindByPredicate(items, Key)
    IN  IF ExistingEntry # 0
        THEN IF items[ExistingEntry].Value = Value
             THEN [Items |-> items, events |-> <<>>]
             ELSE [Items  |-> [items EXCEPT ![ExistingEntry] =
                                  MarkItemDirty([@ EXCEPT !.Value = Value], clk)],
                   events |-> <<NotifyKeyUpdated(Key, Value)>>]
        ELSE [Items  |-> Append(items,
                             MarkItemDirty([Key |-> Key, Value |-> Value,
                                            version |-> 0], clk)),
              events |-> <<NotifyKeyAdded(Key, Value)>>]

\* faulty variant of AddOrUpdate: no lookup, every call appends an entry
AddOrUpdate_AlwaysAdd(items, Key, Value, clk) ==
    [Items  |-> Append(items, MarkItemDirty([Key |-> Key, Value |-> Value,
                                             version |-> 0], clk)),
     events |-> <<NotifyKeyAdded(Key, Value)>>]

\* faulty variant of AddOrUpdate: the update branch does not mark the entry
\* dirty
AddOrUpdate_NoDirty(items, Key, Value, clk) ==
    LET ExistingEntry == FindByPredicate(items, Key)
    IN  IF ExistingEntry # 0
        THEN [Items  |-> [items EXCEPT ![ExistingEntry].Value = Value],
              events |-> <<NotifyKeyUpdated(Key, Value)>>]
        ELSE [Items  |-> Append(items,
                             MarkItemDirty([Key |-> Key, Value |-> Value,
                                            version |-> 0], clk)),
              events |-> <<NotifyKeyAdded(Key, Value)>>]

\* FNeoDataMap::AddOrUpdate : the new Items and the notifications fired
AddOrUpdate(items, Key, Value, clk) ==
    LET ExistingEntry == FindByPredicate(items, Key)
    IN  IF ExistingEntry # 0
        THEN [Items  |-> [items EXCEPT ![ExistingEntry] =
                             MarkItemDirty([@ EXCEPT !.Value = Value], clk)],
              events |-> IF Owner THEN <<NotifyKeyUpdated(Key, Value)>> ELSE <<>>]
        ELSE [Items  |-> Append(items,
                             MarkItemDirty([Key |-> Key, Value |-> Value,
                                            version |-> 0], clk)),
              events |-> IF Owner THEN <<NotifyKeyAdded(Key, Value)>> ELSE <<>>]

\* faulty variant of RemoveCurrent: RemoveCurrentSwap, the last entry takes
\* the freed slot
RemoveCurrent_Swap(items, It) ==
    IF It \in 1..Len(items)
    THEN IF It = Len(items)
         THEN SubSeq(items, 1, Len(items) - 1)
         ELSE [SubSeq(items, 1, Len(items) - 1) EXCEPT ![It] = items[Len(items)]]
    ELSE items

\* It.RemoveCurrent(): TArray::RemoveAt, the later entries keep their order
RemoveCurrent(items, It) ==
    IF It \in 1..Len(items)
    THEN SubSeq(items, 1, It - 1) \o SubSeq(items, It + 1, Len(items))
    ELSE items

\* UNeoReplicatedDataComponent::GetData : (found, value)
GetData(items, Key) ==
    IF FindByPredicate(items, Key) # 0
    THEN [found |-> TRUE, value |-> Find(items, Key)]
    ELSE [found |-> FALSE, value |-> NoValue]

\* UNeoReplicatedDataComponent::GetKeys : the keys in storage order
GetKeys(items) == [i \in 1..Len(items) |-> items[i].Key]

\* faulty variant of the schema gate: the value type is never checked
Validate_KeyOnly(Key, Value, rk, rv) ==
    IF rk # None /\ GetScriptStruct(Key) # rk THEN FALSE ELSE TRUE

\* SetData's schema gate: TRUE when the key and value types are accepted
Validate(Key, Value, rk, rv) ==
    IF rk # None /\ GetScriptStruct(Key) # rk THEN FALSE
    ELSE IF rv # None /\ GetScriptStruct(Value) # rv THEN FALSE
    ELSE TRUE

\* the key -> value map an Items array stands for
MapOf(items) == [k \in Keys |-> GetData(items, k)]

\* ------------------------------------------------------------------------
\* Delta synchronizer (the FastArrayDeltaSerialize call of NetDeltaSerialize)
\* ------------------------------------------------------------------------

\* faulty variant of PreReplicatedRemove: the hook notifies nobody
PreReplicatedRemove_Silent(Entry) == <<>>

\* FNeoDataEntry::PreReplicatedRemove
PreReplicatedRemove(Entry) ==
    IF Owner THEN <<NotifyKeyRemoved(Entry.Key)>> ELSE <<>>

\* faulty variant of PostReplicatedAdd: the hook routes to NotifyKeyUpdated
PostReplicatedAdd_AsChange(Entry) ==
    IF Owner THEN <<NotifyKeyUpdated(Entry.Key, Entry.Value)>> ELSE <<>>

\* FNeoDataEntry::PostReplicatedAdd
PostReplicatedAdd(Entry) ==
    IF Owner THEN <<NotifyKeyAdded(Entry.Key, Entry.Value)>> ELSE <<>>

\* faulty variant of PostReplicatedChange: the hook routes to NotifyKeyRemoved
PostReplicatedChange_AsRemove(Entry) ==
    IF Owner THEN <<NotifyKeyRemoved(Entry.Key)>> ELSE <<>>

\* FNeoDataEntry::PostReplicatedChange
PostReplicatedChange(Entry) ==
    IF Owner THEN <<NotifyKeyUpdated(Entry.Key, Entry.Value)>> ELSE <<>>

RECURSIVE SeqMax(_, _)
SeqMax(s, m) ==
    IF s = <<>> THEN m
    ELSE SeqMax(Tail(s), IF Head(s).version > m THEN Head(s).version ELSE m)

\* the batch a store owes an observer whose acknowledged version is ackv and
\* whose keys are believed to be knownKeys
ComputeDelta(items, hist, ackv, knownKeys) ==
    LET gone  == SelectSeq(hist, LAMBDA h : h.version > ackv)
        dirty == SelectSeq(items, LAMBDA e : e.version > ackv)
    IN  [target  |-> SeqMax(dirty, ackv),
         removed |-> [i \in 1..Len(gone) |-> gone[i].Key],
         changed |-> [i \in 1..Len(dirty) |->
                        [Key   |-> dirty[i].Key,
                         Value |-> dirty[i].Value,
                         kind  |-> IF dirty[i].Key \in knownKeys
                                   THEN "Updated" ELSE "Added"]]]

\* the keys a sequence of entries (or of removals) names
KeysOf(s) == {s[i].Key : i \in 1..Len(s)}

\* the observer key set the synchronizer keeps, after sending batch b
KnownAfter(knownKeys, b) ==
    (knownKeys \ {b.removed[i] : i \in 1..Len(b.removed)}) \cup KeysOf(b.changed)

\* removed phase of a batch on a replica st = [Items, events]
RECURSIVE ApplyRemoved(_, _)
ApplyRemoved(st, removed) ==
    IF removed = <<>> THEN st
    ELSE LET It == FindByPredicate(st.Items, Head(removed))
         IN  ApplyRemoved(
                 IF It # 0
                 THEN [Items  |-> RemoveCurrent(st.Items, It),
                       events |-> st.events \o PreReplicatedRemove(st.Items[It])]
                 ELSE st,
                 Tail(removed))

\* changed phase of a batch: add_or_update on the replica, entry by entry;
\* the entries written carry the batch's target version
RECURSIVE ApplyChanged(_, _, _)
ApplyChanged(st, changed, target) ==
    IF changed = <<>> THEN st
    ELSE LET c     == Head(changed)
             had   == FindByPredicate(st.Items, c.Key) # 0
             r     == AddOrUpdate(st.Items, c.Key, c.Value, target - 1)
             Entry == r.Items[FindByPredicate(r.Items, c.Key)]
         IN  ApplyChanged(
                 [Items  |-> r.Items,
                  events |-> st.events \o (IF had THEN PostReplicatedChange(Entry)
                                                  ELSE PostReplicatedAdd(Entry))],
                 Tail(changed), target)

\* faulty variant of ApplyOps: the changes are applied before the removals
ApplyOps_ChangedFirst(items, b) ==
    ApplyRemoved(ApplyChanged([Items |-> items, events |-> <<>>],
                              b.changed, b.target),
                 b.removed)

\* the operations of a batch: every removal, then every change
ApplyOps(items, b) ==
    ApplyChanged(ApplyRemoved([Items |-> items, events |-> <<>>], b.removed),
                 b.changed, b.target)

\* faulty variant of ApplyDelta: no baseline version check
ApplyDelta_NoVersionCheck(items, base, b) ==
    LET st == ApplyOps(items, b)
    IN  [Items |-> st.Items, baseline |-> b.target, events |-> st.events]

\* apply a received batch to a replica whose baseline is base
ApplyDelta(items, base, b) ==
    IF b.target <= base
    THEN [Items |-> items, baseline |-> base, events |-> <<>>]
    ELSE LET st == ApplyOps(items, b)
         IN  [Items |-> st.Items, baseline |-> b.target, events |-> st.events]

\* ------------------------------------------------------------------------
\* Payload instances: equality and hashing
\* ------------------------------------------------------------------------

\* field values of the two tuple structs; a float is counted in units of
\* the comparison tolerance (UE_SMALL_NUMBER)
Strings == {"s", "t"}
Ints == {0, 1}
Floats == {0, 1, 2}

\* where the allocator may have put an FString's character buffer
Addrs == {1, 2}

\* what the padding bytes of a struct's memory may hold
Pads == {0, 1}

\* an FInstancedStruct holding an FNeoDataDefinition_SI or _SIF: the logical
\* fields, and what its struct memory holds besides them (SI has no float
\* member; it has padding after IntValue, SIF has none)
Instances ==
    [shape : {"SI"}, StringValue : Strings, IntValue : Ints,
     FloatValue : {0}, addr : Addrs, pad : Pads]
    \cup
    [shape : {"SIF"}, StringValue : Strings, IntValue : Ints,
     FloatValue : Floats, addr : Addrs, pad : {0}]

\* a default-constructed (invalid) FInstancedStruct
NoInstance == [shape |-> None, StringValue |-> "", IntValue |-> 0,
               FloatValue |-> 0, addr |-> 0, pad |-> 0]

\* KeyData.IsValid()
IsValid(x) == x.shape # None

\* hash values are uint32; the model keeps them in a smaller range
HashSpace == 65536

\* GetTypeHash(FString)
GetTypeHash_FString(str) ==
    IF str = "s" THEN 115 ELSE IF str = "t" THEN 116 ELSE 0

\* GetTypeHash(int32): the value
GetTypeHash_int32(i) == i % HashSpace

\* GetTypeHash(float): the bit pattern of the value
GetTypeHash_float(f) == (f * 8191) % HashSpace

\* HashCombine(A, C): mixes two hash values into one
HashCombine(A, C) == (A * 31 + C * 17 + 7) % HashSpace

\* FMath::IsNearlyEqual(A, B): |A - B| <= tolerance (one unit)
IsNearlyEqual(A, B) == (IF A >= B THEN A - B ELSE B - A) <= 1

\* FNeoDataDefinition_SI::operator==
Equals_SI(x, Other) ==
    x.StringValue = Other.StringValue /\ x.IntValue = Other.IntValue

\* GetTypeHash(const FNeoDataDefinition_SI&)
GetTypeHash_SI(x) ==
    HashCombine(GetTypeHash_FString(x.StringValue),
                GetTypeHash_int32(x.IntValue))

\* FNeoDataDefinition_SIF::operator==
Equals_SIF(x, Other) ==
    /\ x.StringValue = Other.StringValue
    /\ x.IntValue = Other.IntValue
    /\ IsNearlyEqual(x.FloatValue, Other.FloatValue)

\* GetTypeHash(const FNeoDataDefinition_SIF&)
GetTypeHash_SIF(x) ==
    HashCombine(GetTypeHash_FString(x.StringValue),
                HashCombine(GetTypeHash_int32(x.IntValue),
                            GetTypeHash_float(x.FloatValue)))

\* equality of two typed values: false if the shapes differ, else the
\* shape's own operator==
Equals(x, Other) ==
    IF x.shape # Other.shape THEN FALSE
    ELSE IF x.shape = "SI" THEN Equals_SI(x, Other)
    ELSE Equals_SIF(x, Other)

\* hash of a typed value: the shape's own GetTypeHash
GetTypeHash_Shape(x) ==
    IF x.shape = "SI" THEN GetTypeHash_SI(x) ELSE GetTypeHash_SIF(x)

\* KeyData.GetMemory(): the struct's memory, cell by cell.  The FString
\* member is a pointer to its character buffer plus a length; the padding
\* holds whatever was there
GetMemory(x) ==
    IF x.shape = "SI"
    THEN <<x.addr, 1, x.IntValue, x.pad>>
    ELSE <<x.addr, 1, x.IntValue, x.FloatValue>>

\* ScriptStruct->GetStructureSize(), in cells
GetStructureSize(shape) == 4

\* FCrc::MemCrc32(Data, Length): a checksum of the first Length cells
RECURSIVE MemCrc32From(_, _, _, _)
MemCrc32From(Data, Length, i, crc) ==
    IF i > Length THEN crc
    ELSE MemCrc32From(Data, Length, i + 1, (crc * 33 + Data[i] + 1) % HashSpace)

MemCrc32(Data, Length) == MemCrc32From(Data, Length, 1, 0)

\* FRecordKey::operator== : KeyData == Other.KeyData, same struct type and
\* member-wise identical payload
RecordKeyEquals(x, Other) ==
    /\ x.shape = Other.shape
    /\ x.StringValue = Other.StringValue
    /\ x.IntValue = Other.IntValue
    /\ x.FloatValue = Other.FloatValue

\* GetTypeHash(const FRecordKey&)
GetTypeHash_FRecordKey(Key) ==
    IF IsValid(Key)
    THEN LET ScriptStruct == GetScriptStruct(Key)
         IN  MemCrc32(GetMemory(Key), GetStructureSize(ScriptStruct))
    ELSE 0

\* ------------------------------------------------------------------------
\* State
\* ------------------------------------------------------------------------

VARIABLES
    Items,               \* authority DataMap.Items: <<[Key, Value, version]>>
    clock,               \* the store's replication version counter
    removedHW,           \* removed_version_high_water
    removedHist,         \* removed keys with the version of their removal
    RestrictedKeyType,   \* schema restriction on keys (None when unset)
    RestrictedValueType, \* schema restriction on values (None when unset)
    pc,                  \* "idle"; "inRemoved" while Remove runs OnKeyRemoved,
                         \* "reentered" once that callback has called the
                         \* store; "crashed"
    remIt,               \* Remove's iterator position while pc = "inRemoved"
    events,              \* notifications fired by the authority's last call
    lastCall,            \* the authority's last API call
    prev,                \* the authority's store when that call started
    truth,               \* most recent accepted SetData per key, Absent if removed
    replica,             \* per observer: its DataMap.Items
    baseline,            \* per observer: the version it has applied
    obsEvents,           \* per observer: notifications fired by its last step
    obsLast,             \* per observer: its last step (a delivery or an API call)
    ack,                 \* per observer: ObserverBaseline.acknowledged_version
    known,               \* per observer: keys the synchronizer believes it holds
    net,                 \* per observer: batches in flight
    removedSince,        \* per observer: keys it held, removed since its last batch
    reAdded,             \* per observer: of those, the keys set again
    keyA,                \* a constructed payload instance
    keyB,                \* another constructed payload instance
    cmp,                 \* the last comparison and hashing of keyA and keyB
    record,              \* TRUE when the event logs are kept
    authLog,             \* every notification the authority has fired
    obsLog,              \* per observer: every notification it has fired
    versionCap           \* the highest version this specification explores

storeVars == <<Items, clock, removedHW, removedHist, pc, remIt, events,
               lastCall, prev, truth>>
cfgVars == <<RestrictedKeyType, RestrictedValueType>>
replicaVars == <<replica, baseline, obsEvents, obsLast>>
syncVars == <<ack, known, net>>
ghostVars == <<removedSince, reAdded>>
hashVars == <<keyA, keyB, cmp>>
logVars == <<record, authLog, obsLog>>

vars == <<storeVars, cfgVars, replicaVars, syncVars, ghostVars, hashVars,
          logVars, versionCap>>

Absent == [found |-> FALSE, value |-> NoValue]
Present(v) == [found |-> TRUE, value |-> v]

NoCall == [op |-> "none", Key |-> NoValue, Value |-> NoValue]

NoBatch == [target |-> 0, removed |-> <<>>, changed |-> <<>>]

NoStep == [op |-> "none", caller |-> "none", Key |-> NoValue, Value |-> NoValue,
           applied |-> FALSE]

Snapshot == [Items |-> Items, clock |-> clock, removedHW |-> removedHW,
             removedHist |-> removedHist]

\* UNeoReplicatedDataComponent() on every instance: an empty DataMap owned by
\* the component, no observer baseline yet
InitStore ==
    /\ Items = <<>>
    /\ clock = 0
    /\ removedHW = 0
    /\ removedHist = <<>>
    /\ pc = "idle"
    /\ remIt = 0
    /\ events = <<>>
    /\ lastCall = NoCall
    /\ prev = [Items |-> <<>>, clock |-> 0, removedHW |-> 0, removedHist |-> <<>>]
    /\ truth = [k \in Keys |-> Absent]

\* no comparison made
NoCmp == [done |-> FALSE, keyEq |-> FALSE, keyHashA |-> 0, keyHashB |-> 0,
          valEq |-> FALSE, valHashA |-> 0, valHashB |-> 0]

\* no payload instance under comparison
InitHash ==
    /\ keyA = NoInstance
    /\ keyB = NoInstance
    /\ cmp = NoCmp

\* empty event logs, kept or not
InitLog(rec) ==
    /\ record = rec
    /\ authLog = <<>>
    /\ obsLog = [o \in Observers |-> <<>>]

\* the version counter is explored up to n
InitCap(n) == versionCap = n

\* the log after the notifications evs were fired
Logged(log, evs) == IF record THEN log \o evs ELSE log

\* observers that have just subscribed
InitObservers ==
    /\ replica = [o \in Observers |-> <<>>]
    /\ baseline = [o \in Observers |-> 0]
    /\ obsEvents = [o \in Observers |-> <<>>]
    /\ obsLast = [o \in Observers |-> NoStep]
    /\ ack = [o \in Observers |-> 0]
    /\ known = [o \in Observers |-> {}]
    /\ net = [o \in Observers |-> {}]
    /\ removedSince = [o \in Observers |-> {}]
    /\ reAdded = [o \in Observers |-> {}]

Init ==
    /\ InitStore
    /\ RestrictedKeyType \in {None} \cup Shapes
    /\ RestrictedValueType \in {None} \cup Shapes
    /\ InitObservers
    /\ InitHash
    /\ InitLog(FALSE)
    /\ InitCap(MaxVersion)

\* UNeoReplicatedDataComponent::SetData on the authority
SetData(Key, Value) ==
    /\ pc = "idle"
    /\ lastCall' = [op |-> "SetData", Key |-> Key, Value |-> Value]
    /\ prev' = Snapshot
    /\ IF Validate(Key, Value, RestrictedKeyType, RestrictedValueType)
       THEN /\ clock < versionCap
            /\ LET r == AddOrUpdate(Items, Key, Value, clock)
               IN  /\ Items' = r.Items
                   /\ events' = r.events
            /\ clock' = clock + 1
            /\ truth' = [truth EXCEPT ![Key] = Present(Value)]
            /\ reAdded' = [o \in Observers |->
                             IF Key \in removedSince[o]
                             THEN reAdded[o] \cup {Key} ELSE reAdded[o]]
       ELSE /\ events' = <<>>
            /\ UNCHANGED <<Items, clock, truth, reAdded>>
    /\ authLog' = Logged(authLog, events')
    /\ UNCHANGED <<removedHW, removedHist, pc, remIt, removedSince>>
    /\ UNCHANGED <<cfgVars, versionCap, replicaVars>>
    /\ UNCHANGED <<syncVars, hashVars, record, obsLog>>

\* faulty variant of RemoveData: the entry is deleted before the callback runs
RemoveData_DeleteFirst(Key) ==
    /\ pc = "idle"
    /\ lastCall' = [op |-> "RemoveData", Key |-> Key, Value |-> NoValue]
    /\ prev' = Snapshot
    /\ LET It == FindByPredicate(Items, Key)
       IN  IF It # 0
           THEN /\ clock < versionCap
                /\ Items' = RemoveCurrent(Items, It)
                /\ events' = <<NotifyKeyRemoved(Key)>>
                /\ pc' = "inRemoved"
                /\ remIt' = 0
           ELSE /\ events' = <<>>
                /\ UNCHANGED <<Items, pc, remIt>>
    /\ UNCHANGED <<clock, removedHW, removedHist, truth>>
    /\ UNCHANGED <<cfgVars, versionCap, replicaVars>>
    /\ UNCHANGED <<syncVars, ghostVars, hashVars, logVars>>

\* faulty variant of RemoveData: an absent key still marks the array dirty
RemoveData_DirtyAlways(Key) ==
    /\ pc = "idle"
    /\ lastCall' = [op |-> "RemoveData", Key |-> Key, Value |-> NoValue]
    /\ prev' = Snapshot
    /\ clock < versionCap
    /\ LET It == FindByPredicate(Items, Key)
       IN  IF It # 0
           THEN /\ events' = <<NotifyKeyRemoved(Key)>>
                /\ pc' = "inRemoved"
                /\ remIt' = It
                /\ UNCHANGED <<clock, removedHW, removedHist>>
           ELSE /\ events' = <<>>
                /\ clock' = clock + 1
                /\ removedHW' = clock + 1
                /\ removedHist' = Append(removedHist,
                                         [Key |-> Key, version |-> clock + 1])
                /\ UNCHANGED <<pc, remIt>>
    /\ UNCHANGED <<Items, truth>>
    /\ UNCHANGED <<cfgVars, versionCap, replicaVars>>
    /\ UNCHANGED <<syncVars, ghostVars, hashVars, logVars>>

\* RemoveData -> FNeoDataMap::Remove, up to and including the
\* Owner->NotifyKeyRemoved(Key) call made before the entry is deleted
RemoveData(Key) ==
    /\ pc = "idle"
    /\ lastCall' = [op |-> "RemoveData", Key |-> Key, Value |-> NoValue]
    /\ prev' = Snapshot
    /\ LET It == FindByPredicate(Items, Key)
       IN  IF It # 0
           THEN /\ clock < versionCap
                /\ events' = IF Owner THEN <<NotifyKeyRemoved(Key)>> ELSE <<>>
                /\ pc' = "inRemoved"
                /\ remIt' = It
           ELSE /\ events' = <<>>
                /\ UNCHANGED <<pc, remIt>>
    /\ authLog' = Logged(authLog, events')
    /\ UNCHANGED <<Items, clock, removedHW, removedHist, truth>>
    /\ UNCHANGED <<cfgVars, versionCap, replicaVars>>
    /\ UNCHANGED <<syncVars, ghostVars, hashVars>>
    /\ UNCHANGED <<record, obsLog>>

\* MarkArrayDirty() after a removal: the removal takes a version of its own
MarkArrayDirty(hist, Key, clk) == Append(hist, [Key |-> Key, version |-> clk + 1])

\* an observer that holds Key and has acknowledged everything up to now
HoldsAcked(o, Key) ==
    /\ FindByPredicate(replica[o], Key) # 0
    /\ Key \in known[o]
    /\ ack[o] = clock

\* FNeoDataMap::Remove after the callback returned:
\* It.RemoveCurrent(); MarkArrayDirty(); return
RemoveReturn ==
    /\ pc \in {"inRemoved", "reentered"}
    /\ remIt \in 1..Len(Items)
    /\ Items' = RemoveCurrent(Items, remIt)
    /\ removedHist' = MarkArrayDirty(removedHist, lastCall.Key, clock)
    /\ clock' = clock + 1
    /\ removedHW' = clock + 1
    /\ pc' = "idle"
    /\ remIt' = 0
    /\ truth' = [truth EXCEPT ![lastCall.Key] = Absent]
    /\ removedSince' = [o \in Observers |->
                          IF HoldsAcked(o, lastCall.Key)
                          THEN removedSince[o] \cup {lastCall.Key}
                          ELSE removedSince[o] \ {lastCall.Key}]
    /\ reAdded' = [o \in Observers |-> reAdded[o] \ {lastCall.Key}]
    /\ UNCHANGED <<events, lastCall, prev>>
    /\ UNCHANGED <<cfgVars, versionCap, replicaVars>>
    /\ UNCHANGED <<syncVars, hashVars, logVars>>

StoreNext ==
    \/ \E Key \in Keys, Value \in Values : SetData(Key, Value)
    \/ \E Key \in Keys : RemoveData(Key)
    \/ RemoveReturn

\* the authority's record store on its own, under every schema configuration
SpecStore == Init /\ [][StoreNext]_vars

\* ------------------------------------------------------------------------
\* Replication: authority -> observers
\* ------------------------------------------------------------------------

\* keys and values the authority uses while replicating
SyncKeys == { [shape |-> "SI", data |-> 1], [shape |-> "SI", data |-> 2] }
SyncValues == { [shape |-> "SI", data |-> 1], [shape |-> "SI", data |-> 2] }

\* replication tick for observer o: compute its batch and hand it to the
\* transport; the known-key set follows what was sent
SendDelta(o) ==
    /\ pc = "idle"
    /\ Cardinality(net[o]) < MaxInFlight
    /\ LET b == ComputeDelta(Items, removedHist, ack[o], known[o])
       IN  /\ b.removed # <<>> \/ b.changed # <<>>
           /\ b \notin net[o]
           /\ net' = [net EXCEPT ![o] = @ \cup {b}]
           /\ known' = [known EXCEPT ![o] = KnownAfter(@, b)]
    /\ removedSince' = [removedSince EXCEPT ![o] = {}]
    /\ reAdded' = [reAdded EXCEPT ![o] = {}]
    /\ UNCHANGED <<ack>>
    /\ UNCHANGED <<storeVars, cfgVars, versionCap>>
    /\ UNCHANGED <<replicaVars, hashVars, logVars>>

\* the transport delivers batch b to observer o (it may deliver it again, or
\* after a later batch)
Deliver(o, b) ==
    /\ b \in net[o]
    /\ LET r == ApplyDelta(replica[o], baseline[o], b)
       IN  /\ replica' = [replica EXCEPT ![o] = r.Items]
           /\ baseline' = [baseline EXCEPT ![o] = r.baseline]
           /\ obsEvents' = [obsEvents EXCEPT ![o] = r.events]
    /\ obsLast' = [obsLast EXCEPT ![o] =
                      [NoStep EXCEPT
                          !.op = "Deliver", !.caller = "net",
                          !.applied = (b.target > baseline[o])]]
    /\ obsLog' = [obsLog EXCEPT ![o] = Logged(@, obsEvents'[o])]
    /\ UNCHANGED <<storeVars, cfgVars, versionCap>>
    /\ UNCHANGED <<syncVars, ghostVars, hashVars>>
    /\ UNCHANGED <<record, authLog>>

\* the transport loses batch b, or stops re-delivering it
Drop(o, b) ==
    /\ b \in net[o]
    /\ net' = [net EXCEPT ![o] = @ \ {b}]
    /\ UNCHANGED <<ack, known>>
    /\ UNCHANGED <<storeVars, cfgVars, versionCap>>
    /\ UNCHANGED <<replicaVars, ghostVars, hashVars, logVars>>

\* confirmed receipt: the authority learns what observer o has applied
Ack(o) ==
    /\ baseline[o] > ack[o]
    /\ ack' = [ack EXCEPT ![o] = baseline[o]]
    /\ UNCHANGED <<known, net>>
    /\ UNCHANGED <<storeVars, cfgVars, versionCap>>
    /\ UNCHANGED <<replicaVars, ghostVars, hashVars, logVars>>

\* replication without schema restrictions
InitSync ==
    /\ Init
    /\ RestrictedKeyType = None
    /\ RestrictedValueType = None

Next ==
    \/ \E Key \in SyncKeys, Value \in SyncValues : SetData(Key, Value)
    \/ \E Key \in SyncKeys : RemoveData(Key)
    \/ RemoveReturn
    \/ \E o \in Observers : SendDelta(o)
    \/ \E o \in Observers : \E b \in net[o] : Deliver(o, b)
    \/ \E o \in Observers : \E b \in net[o] : Drop(o, b)
    \/ \E o \in Observers : Ack(o)

Spec == InitSync /\ [][Next]_vars

\* ------------------------------------------------------------------------
\* Batch application on its own: every replica state against every batch
\* ------------------------------------------------------------------------

\* longest removed / changed list of an enumerated batch
MaxBatchLen == 2

BoundedSeq(S, n) == UNION {[1..m -> S] : m \in 0..n}

DistinctKeys(s) == \A i, j \in 1..Len(s) : i # j => ~KeyEq(s[i].Key, s[j].Key)

\* replica arrays: at most one entry per key (AddOrUpdate never duplicates)
ReplicaStates ==
    {r \in BoundedSeq([Key : SyncKeys, Value : SyncValues, version : {1}],
                      Cardinality(SyncKeys)) : DistinctKeys(r)}

\* batches: any removals, at most one changed entry per key
Batches ==
    {[target |-> t, removed |-> rm, changed |-> ch] :
        t \in 0..MaxVersion,
        rm \in BoundedSeq(SyncKeys, MaxBatchLen),
        ch \in {c \in BoundedSeq([Key : SyncKeys, Value : SyncValues,
                                  kind : {"Added", "Updated"}], MaxBatchLen) :
                   DistinctKeys(c)}}

\* an observer in any replica state, with any one batch in flight to it
InitApply ==
    /\ InitStore
    /\ RestrictedKeyType = None
    /\ RestrictedValueType = None
    /\ replica \in [Observers -> ReplicaStates]
    /\ baseline \in [Observers -> 0..(MaxVersion - 1)]
    /\ net \in [Observers -> {{b} : b \in Batches}]
    /\ obsEvents = [o \in Observers |-> <<>>]
    /\ obsLast = [o \in Observers |-> NoStep]
    /\ ack = [o \in Observers |-> 0]
    /\ known = [o \in Observers |-> {}]
    /\ removedSince = [o \in Observers |-> {}]
    /\ reAdded = [o \in Observers |-> {}]
    /\ InitHash
    /\ InitLog(FALSE)
    /\ InitCap(MaxVersion)

NextApply == \E o \in Observers : \E b \in net[o] : Deliver(o, b)

SpecApply == InitApply /\ [][NextApply]_vars

\* ------------------------------------------------------------------------
\* API calls made on an observer's component instance
\* ------------------------------------------------------------------------

\* who calls the UFUNCTION: a Blueprint graph, or C++ (SetTypedData, or a
\* direct call of SetData / RemoveData)
Callers == {"Blueprint", "Native"}

\* UFUNCTION(BlueprintAuthorityOnly): a Blueprint call is not executed on an
\* instance without network authority; the function body has no check
RunsWithoutAuthority(caller) == caller = "Native"

\* SetData called on observer o
ObserverSetData(o, caller, Key, Value) ==
    /\ obsLast' = [obsLast EXCEPT ![o] =
                      [NoStep EXCEPT !.op = "SetData", !.caller = caller,
                                     !.Key = Key, !.Value = Value]]
    /\ IF /\ RunsWithoutAuthority(caller)
          /\ Validate(Key, Value, RestrictedKeyType, RestrictedValueType)
       THEN LET r == AddOrUpdate(replica[o], Key, Value, baseline[o])
            IN  /\ replica' = [replica EXCEPT ![o] = r.Items]
                /\ obsEvents' = [obsEvents EXCEPT ![o] = r.events]
       ELSE /\ obsEvents' = [obsEvents EXCEPT ![o] = <<>>]
            /\ UNCHANGED replica
    /\ UNCHANGED baseline
    /\ UNCHANGED <<storeVars, cfgVars, versionCap>>
    /\ UNCHANGED <<syncVars, ghostVars, hashVars, logVars>>

\* RemoveData called on observer o (FNeoDataMap::Remove, start to end)
ObserverRemoveData(o, caller, Key) ==
    /\ obsLast' = [obsLast EXCEPT ![o] =
                      [NoStep EXCEPT !.op = "RemoveData", !.caller = caller,
                                     !.Key = Key]]
    /\ LET It == FindByPredicate(replica[o], Key)
       IN  IF RunsWithoutAuthority(caller) /\ It # 0
           THEN /\ obsEvents' = [obsEvents EXCEPT ![o] =
                                    IF Owner THEN <<NotifyKeyRemoved(Key)>>
                                             ELSE <<>>]
                /\ replica' = [replica EXCEPT ![o] = RemoveCurrent(@, It)]
           ELSE /\ obsEvents' = [obsEvents EXCEPT ![o] = <<>>]
                /\ UNCHANGED replica
    /\ UNCHANGED baseline
    /\ UNCHANGED <<storeVars, cfgVars, versionCap>>
    /\ UNCHANGED <<syncVars, ghostVars, hashVars, logVars>>

NextNative ==
    \/ \E Key \in SyncKeys, Value \in SyncValues : SetData(Key, Value)
    \/ \E o \in Observers : SendDelta(o)
    \/ \E o \in Observers : \E b \in net[o] : Deliver(o, b)
    \/ \E o \in Observers, caller \in Callers, Key \in SyncKeys,
          Value \in SyncValues : ObserverSetData(o, caller, Key, Value)
    \/ \E o \in Observers, caller \in Callers, Key \in SyncKeys :
          ObserverRemoveData(o, caller, Key)

SpecNative == InitSync /\ [][NextNative]_vars

\* ------------------------------------------------------------------------
\* Properties
\* ------------------------------------------------------------------------

\* the key is stored in items
Holds(items, Key) == \E i \in 1..Len(items) : items[i].Key = Key

\* a configured restriction that the key or the value does not meet
SchemaViolated(Key, Value) ==
    \/ RestrictedKeyType # None /\ Key.shape # RestrictedKeyType
    \/ RestrictedValueType # None /\ Value.shape # RestrictedValueType

\* C1: after any sequence of SetData / RemoveData calls on the authority the
\* store holds at most one entry per key, and GetData(k) is found with the
\* value of the most recent accepted SetData(k, v) unless a RemoveData(k)
\* followed it, and not found otherwise.
C1_OneEntryPerKeyLatestValue ==
    /\ \A i, j \in 1..Len(Items) : i # j => Items[i].Key # Items[j].Key
    /\ \A k \in Keys : GetData(Items, k) = truth[k]

\* reached: a value was replaced, then another key removed
C1_Witness ==
    /\ pc = "idle"
    /\ lastCall.op = "RemoveData"
    /\ Len(prev.Items) = 2
    /\ Len(Items) = 1
    /\ Items[1].version > 1
    /\ \E k \in Keys : truth[k].found /\ Holds(Items, k)

\* C2: every accepted SetData fires exactly one notification before it
\* returns: Updated(key, value) if the key was stored just before the call
\* (also when the value is the one already stored), Added(key, value)
\* otherwise; never Removed, never two.
C2_ExactlyOneAddedOrUpdated ==
    (lastCall.op = "SetData" /\ ~SchemaViolated(lastCall.Key, lastCall.Value))
        => events = << [kind  |-> IF Holds(prev.Items, lastCall.Key)
                                  THEN "Updated" ELSE "Added",
                        Key   |-> lastCall.Key,
                        Value |-> lastCall.Value] >>

\* reached: SetData rewrote the value a key already had
C2_Witness ==
    /\ lastCall.op = "SetData"
    /\ ~SchemaViolated(lastCall.Key, lastCall.Value)
    /\ Holds(prev.Items, lastCall.Key)
    /\ Find(prev.Items, lastCall.Key) = lastCall.Value
    /\ events = <<NotifyKeyUpdated(lastCall.Key, lastCall.Value)>>

\* C3: RemoveData of a stored key fires Removed(key) before the entry is
\* deleted: while the callback runs the key is still found with its value,
\* and once the call has returned the key is absent.
C3_RemovedBeforeDelete ==
    /\ pc = "inRemoved" =>
          /\ events = <<NotifyKeyRemoved(lastCall.Key)>>
          /\ Holds(Items, lastCall.Key)
          /\ GetData(Items, lastCall.Key) = GetData(prev.Items, lastCall.Key)
    /\ (pc = "idle" /\ lastCall.op = "RemoveData"
                    /\ Holds(prev.Items, lastCall.Key)) =>
          /\ events = <<NotifyKeyRemoved(lastCall.Key)>>
          /\ ~Holds(Items, lastCall.Key)
          /\ ~GetData(Items, lastCall.Key).found

\* reached: a stored key was removed and the call has returned
C3_Witness ==
    /\ pc = "idle"
    /\ lastCall.op = "RemoveData"
    /\ Holds(prev.Items, lastCall.Key)
    /\ ~Holds(Items, lastCall.Key)
    /\ events = <<NotifyKeyRemoved(lastCall.Key)>>

\* C4: RemoveData of a key that is not stored fires nothing and leaves the
\* entries, their order, and all version / dirty state as they were.
C4_RemoveAbsentIsNoOp ==
    (lastCall.op = "RemoveData" /\ ~Holds(prev.Items, lastCall.Key)) =>
        /\ events = <<>>
        /\ pc = "idle"
        /\ Items = prev.Items
        /\ clock = prev.clock
        /\ removedHW = prev.removedHW
        /\ removedHist = prev.removedHist

\* reached: RemoveData of an absent key on a store that is not empty
C4_Witness ==
    /\ lastCall.op = "RemoveData"
    /\ ~Holds(prev.Items, lastCall.Key)
    /\ Len(Items) >= 1
    /\ events = <<>>

\* C5: a SetData whose key or value does not meet a configured restriction
\* leaves the store as it was (same keys, same values, nothing marked dirty)
\* and fires no notification.
C5_SchemaRejection ==
    (lastCall.op = "SetData" /\ SchemaViolated(lastCall.Key, lastCall.Value)) =>
        /\ events = <<>>
        /\ Items = prev.Items
        /\ GetKeys(Items) = GetKeys(prev.Items)
        /\ \A k \in Keys : GetData(Items, k) = GetData(prev.Items, k)
        /\ clock = prev.clock
        /\ removedHW = prev.removedHW
        /\ removedHist = prev.removedHist

\* reached: a value of the wrong type was rejected for a key of the right
\* type, on a store that already has an entry
C5_Witness ==
    /\ lastCall.op = "SetData"
    /\ RestrictedValueType # None
    /\ lastCall.Value.shape # RestrictedValueType
    /\ RestrictedKeyType # None
    /\ lastCall.Key.shape = RestrictedKeyType
    /\ Len(Items) >= 1
    /\ events = <<>>

\* C6: SetData and RemoveData called on an observer's instance do not change
\* that replica and fire no notification there.
C6_ObserverCallsChangeNothing ==
    [][\A o \in Observers :
          obsLast'[o].op \in {"SetData", "RemoveData"} =>
              /\ replica'[o] = replica[o]
              /\ obsEvents'[o] = <<>>]_vars

\* the keys a batch both removes and changes
InBoth(b) ==
    {K \in SyncKeys : /\ \E i \in 1..Len(b.removed) : b.removed[i] = K
                      /\ \E i \in 1..Len(b.changed) : b.changed[i].Key = K}

\* the value a batch's changed list gives a key
ChangedValue(b, K) ==
    (CHOOSE c \in {b.changed[i] : i \in 1..Len(b.changed)} : c.Key = K).Value

\* the (key, value) pairs stored in items
PairsOf(items) ==
    {[Key |-> items[i].Key, Value |-> items[i].Value] : i \in 1..Len(items)}

\* C7: applying a batch twice in a row leaves the replica's key -> value map
\* (the same number of entries, the same pairs, the same lookups) and its
\* baseline as applying it once does; the map part also holds of the
\* batch's operations without the baseline check.
C7_ApplyIdempotent ==
    \A o \in Observers : \A b \in net[o] :
        LET once   == ApplyDelta(replica[o], baseline[o], b)
            twice  == ApplyDelta(once.Items, once.baseline, b)
            ops1   == ApplyOps(replica[o], b)
            ops2   == ApplyOps(ops1.Items, b)
        IN  /\ twice.Items = once.Items
            /\ MapOf(twice.Items) = MapOf(once.Items)
            /\ twice.baseline = once.baseline
            /\ Len(ops2.Items) = Len(ops1.Items)
            /\ PairsOf(ops2.Items) = PairsOf(ops1.Items)
            /\ MapOf(ops2.Items) = MapOf(ops1.Items)

\* reached: a batch with removals and changes was applied and then delivered
\* a second time
C7_Witness ==
    \E o \in Observers : \E b \in net[o] :
        /\ obsLast[o].op = "Deliver"
        /\ ~obsLast[o].applied
        /\ b.target = MaxVersion
        /\ baseline[o] = MaxVersion
        /\ b.removed # <<>>
        /\ Len(b.changed) = 2
        /\ PairsOf(replica[o]) = PairsOf(ApplyOps(replica[o], b).Items)

\* C8: a batch that both removes key K and carries a changed entry (K, V)
\* leaves the replica, once applied, with K mapped to V.
C8_RemoveThenReAddKeepsKey ==
    \A o \in Observers : \A b \in net[o] :
        /\ b.target > baseline[o] =>
              \A K \in InBoth(b) :
                  GetData(ApplyDelta(replica[o], baseline[o], b).Items, K)
                      = Present(ChangedValue(b, K))
        /\ (obsLast[o].op = "Deliver" /\ obsLast[o].applied) =>
              \A K \in InBoth(b) :
                  GetData(replica[o], K) = Present(ChangedValue(b, K))

\* reached: such a batch was applied to a replica
C8_Witness ==
    \E o \in Observers : \E b \in net[o] :
        /\ obsLast[o].op = "Deliver"
        /\ obsLast[o].applied
        /\ InBoth(b) # {}
        /\ \A K \in InBoth(b) : Holds(replica[o], K)
        /\ obsEvents[o] # <<>>
        /\ obsEvents[o][1].kind = "Removed"

\* C9: an observer's baseline never decreases, whatever is delivered, and a
\* batch whose target version is not above the baseline changes neither the
\* replica nor the baseline and fires no notification.
C9_BaselineMonotone ==
    /\ [][\A o \in Observers : baseline'[o] >= baseline[o]]_vars
    /\ [][\A o \in Observers :
             (obsLast'[o].op = "Deliver" /\ ~obsLast'[o].applied) =>
                 /\ replica'[o] = replica[o]
                 /\ baseline'[o] = baseline[o]
                 /\ obsEvents'[o] = <<>>]_vars

\* reached: an older batch was delivered after a newer one had been applied
C9_Witness ==
    \E o \in Observers :
        /\ obsLast[o].op = "Deliver"
        /\ ~obsLast[o].applied
        /\ baseline[o] >= 2
        /\ replica[o] # <<>>
        /\ net[o] # {}
        /\ \A b \in net[o] : b.target < baseline[o] /\ b.changed # <<>>

\* C10: after RemoveData(K) and then SetData(K, V2) between two delta
\* computations, the batch computed for an observer that holds K lists
\* (K, V2, Updated) in changed and does not list K in removed.
C10_ReAddCollapsesToUpdate ==
    \A o \in Observers : \A K \in reAdded[o] :
        pc = "idle" =>
            LET d == ComputeDelta(Items, removedHist, ack[o], known[o])
            IN  /\ \E i \in 1..Len(d.changed) :
                      d.changed[i] = [Key |-> K, Value |-> Find(Items, K),
                                      kind |-> "Updated"]
                /\ \A i \in 1..Len(d.removed) : d.removed[i] # K

\* an observer that has just subscribed: nothing sent to it, nothing applied
Fresh(o) ==
    /\ ack[o] = 0
    /\ known[o] = {}
    /\ baseline[o] = 0
    /\ replica[o] = <<>>

\* the batch computed for a fresh observer lists every stored entry, in
\* storage order, tagged Added; applied to the empty replica it reproduces
\* the authority's map and fires OnKeyAdded once per entry, nothing else
FreshDeltaAddsAll(o) ==
    LET d == ComputeDelta(Items, removedHist, ack[o], known[o])
        r == ApplyDelta(replica[o], baseline[o], d)
    IN  /\ d.changed = [i \in 1..Len(Items) |->
                          [Key |-> Items[i].Key, Value |-> Items[i].Value,
                           kind |-> "Added"]]
        /\ \A k \in Keys : Find(r.Items, k) = Find(Items, k)
        /\ MapOf(r.Items) = MapOf(Items)
        /\ r.events = [i \in 1..Len(Items) |->
                          NotifyKeyAdded(Items[i].Key, Items[i].Value)]

\* C11 (as stated): for a fresh observer (baseline 0, empty replica) the
\* computed delta has an empty removed list and lists every current entry
\* tagged Added; applying it gives a replica whose find(k) is the authority's
\* for every key, and fires OnKeyAdded exactly once per key and nothing else.
C11_FreshDeltaNoRemovals ==
    \A o \in Observers :
        (pc = "idle" /\ Fresh(o)) =>
            /\ ComputeDelta(Items, removedHist, ack[o], known[o]).removed = <<>>
            /\ FreshDeltaAddsAll(o)

\* C11 (amended): for a fresh observer the computed delta lists every current
\* entry tagged Added, and its removed list names only keys the authority
\* removed earlier (it is empty when nothing was removed); applying it to the
\* empty replica gives the authority's find(k) for every key and fires
\* OnKeyAdded exactly once per key and no other event.
C11_FreshDeltaAllAdded ==
    \A o \in Observers :
        (pc = "idle" /\ Fresh(o)) =>
            LET d == ComputeDelta(Items, removedHist, ack[o], known[o])
            IN  /\ \A i \in 1..Len(d.removed) :
                      \E j \in 1..Len(removedHist) :
                          removedHist[j].Key = d.removed[i]
                /\ removedHist = <<>> => d.removed = <<>>
                /\ FreshDeltaAddsAll(o)

\* reached: the first batch of an observer, computed after a removal on the
\* authority, was applied to its empty replica and fired only Added
C11_Witness ==
    \E o \in Observers : \E b \in net[o] :
        /\ obsLast[o].op = "Deliver"
        /\ obsLast[o].applied
        /\ ack[o] = 0
        /\ b.target = baseline[o]
        /\ b.removed # <<>>
        /\ b.changed # <<>>
        /\ \A i \in 1..Len(b.changed) : b.changed[i].kind = "Added"
        /\ MapOf(replica[o]) = MapOf(Items)
        /\ obsEvents[o] = [i \in 1..Len(Items) |->
                              NotifyKeyAdded(Items[i].Key, Items[i].Value)]

\* ------------------------------------------------------------------------
\* Equality and hashing of constructed payloads
\* ------------------------------------------------------------------------

\* two payload instances are constructed (FInstancedStruct::Make)
Construct(x, y) ==
    /\ keyA' = x
    /\ keyB' = y
    /\ cmp' = NoCmp
    /\ UNCHANGED <<storeVars, cfgVars, versionCap>>
    /\ UNCHANGED <<replicaVars, syncVars, ghostVars, logVars>>

\* the two instances are compared and hashed, as record keys
\* (FRecordKey::operator==, GetTypeHash(FRecordKey)) and as typed values
\* (the shape's operator== and GetTypeHash)
Compare ==
    /\ IsValid(keyA)
    /\ IsValid(keyB)
    /\ ~cmp.done
    /\ cmp' = [done     |-> TRUE,
               keyEq    |-> RecordKeyEquals(keyA, keyB),
               keyHashA |-> GetTypeHash_FRecordKey(keyA),
               keyHashB |-> GetTypeHash_FRecordKey(keyB),
               valEq    |-> Equals(keyA, keyB),
               valHashA |-> GetTypeHash_Shape(keyA),
               valHashB |-> GetTypeHash_Shape(keyB)]
    /\ UNCHANGED <<keyA, keyB>>
    /\ UNCHANGED <<storeVars, cfgVars, versionCap>>
    /\ UNCHANGED <<replicaVars, syncVars, ghostVars, logVars>>

InitHashing ==
    /\ InitStore
    /\ RestrictedKeyType = None
    /\ RestrictedValueType = None
    /\ InitObservers
    /\ InitHash
    /\ InitLog(FALSE)
    /\ InitCap(MaxVersion)

NextHashing ==
    \/ \E x \in Instances, y \in Instances : Construct(x, y)
    \/ Compare

SpecHashing == InitHashing /\ [][NextHashing]_vars

\* C12: for any two keys or typed values a and b of the registered shapes
\* (String+Int and String+Int+Float), equals(a, b) implies
\* hash(a) = hash(b): the hash depends only on the logical field values that
\* equality compares.
C12_EqualImpliesSameHash ==
    cmp.done =>
        /\ cmp.keyEq => cmp.keyHashA = cmp.keyHashB
        /\ cmp.valEq => cmp.valHashA = cmp.valHashB

\* ------------------------------------------------------------------------
\* Replication with the notifications of both sides logged
\* ------------------------------------------------------------------------

InitEvents ==
    /\ InitStore
    /\ RestrictedKeyType = None
    /\ RestrictedValueType = None
    /\ InitObservers
    /\ InitHash
    /\ InitLog(TRUE)
    /\ InitCap(MaxVersion)

NextEvents ==
    \/ \E Key \in SyncKeys, Value \in SyncValues : SetData(Key, Value)
    \/ \E Key \in SyncKeys : RemoveData(Key)
    \/ RemoveReturn
    \/ \E o \in Observers : SendDelta(o)
    \/ \E o \in Observers : \E b \in net[o] : Deliver(o, b)
    \/ \E o \in Observers : Ack(o)

\* the transport loses nothing here; it may still duplicate and reorder
SpecEvents == InitEvents /\ [][NextEvents]_vars

\* s is an initial part of t
IsPrefix(s, t) == Len(s) <= Len(t) /\ s = SubSeq(t, 1, Len(s))

\* an event of the authority that sets Key to Value
FiredSet(Key, Value) ==
    \E j \in 1..Len(authLog) :
        /\ authLog[j].kind \in {"Added", "Updated"}
        /\ authLog[j].Key = Key
        /\ authLog[j].Value = Value

\* an event of the authority that removes Key
FiredRemoved(Key) ==
    \E j \in 1..Len(authLog) : authLog[j] = NotifyKeyRemoved(Key)

\* C13 (as stated): the events fired on an observer while it applies the
\* deltas are the events the authority fired, in the same relative order,
\* each exactly once: what the observer has fired so far is an initial part
\* of what the authority fired, and all of it once the observer has applied
\* the authority's latest version.
C13_SameEventsSameOrder ==
    \A o \in Observers :
        /\ IsPrefix(obsLog[o], authLog)
        /\ (pc = "idle" /\ baseline[o] = clock) => obsLog[o] = authLog

\* C13 (amended): the events fired on an observer report the net change
\* since its baseline, not every authority event: each Removed(K) fired on
\* the observer follows a Removed(K) fired on the authority, each Added or
\* Updated (K, V) follows an authority Added or Updated of K with the same
\* value V, and one applied batch fires at most one Removed and at most one
\* Added or Updated per key.
C13_ObserverEventsAreNetChanges ==
    \A o \in Observers :
        /\ \A i \in 1..Len(obsLog[o]) :
              LET e == obsLog[o][i]
              IN  IF e.kind = "Removed" THEN FiredRemoved(e.Key)
                                        ELSE FiredSet(e.Key, e.Value)
        /\ \A i, j \in 1..Len(obsEvents[o]) :
              (/\ i # j
               /\ obsEvents[o][i].Key = obsEvents[o][j].Key)
                  => (obsEvents[o][i].kind = "Removed")
                         # (obsEvents[o][j].kind = "Removed")

\* reached: the authority added a key and then updated it, and the observer
\* fired a single Added carrying the final value; a later update of the key
\* then reached the observer as Updated
C13_Witness ==
    \E o \in Observers :
        /\ Len(authLog) = 3
        /\ authLog[1].kind = "Added"
        /\ authLog[2].kind = "Updated"
        /\ authLog[3].kind = "Updated"
        /\ Len(obsLog[o]) = 2
        /\ obsLog[o][1] = [authLog[2] EXCEPT !.kind = "Added"]
        /\ obsLog[o][2] = authLog[3]
        /\ obsLast[o].op = "Deliver"
        /\ obsLast[o].applied

\* applying batch b now would leave observer o's replica and baseline as
\* they are
ChangesNothing(o, b) ==
    LET r == ApplyDelta(replica[o], baseline[o], b)
    IN  r.Items = replica[o] /\ r.baseline = baseline[o]

\* the authority is between calls and nothing that the synchronizer or the
\* transport can still do for observer o has any effect: its receipt is
\* acknowledged, and neither a batch in flight nor the batch it is owed now
\* changes its replica or baseline, however often they are delivered
Settled(o) ==
    /\ pc = "idle"
    /\ ack[o] = baseline[o]
    /\ \A b \in net[o] : ChangesNothing(o, b)
    /\ ChangesNothing(o, ComputeDelta(Items, removedHist, ack[o], known[o]))

\* C14: if the authority stops mutating and the computed deltas keep being
\* delivered and applied (duplicates included), every observer's replica
\* ends up holding exactly the authority's key -> value map, also when the
\* only changes since its baseline are removals: an observer for which
\* further deliveries change nothing holds the authority's map.
C14_SettledObserverConverged ==
    \A o \in Observers : Settled(o) => MapOf(replica[o]) = MapOf(Items)

\* ------------------------------------------------------------------------
\* StaleBaseline: the full-resend fallback
\* ------------------------------------------------------------------------

\* the full-resend delta: removed cleared, changed holding every current
\* entry, target version the current maximum
FullResend(items) == ComputeDelta(items, <<>>, 0, {})

\* the synchronizer cannot serve observer o from its retained history: it
\* sends the full-resend delta, which o applies
StaleBaselineResend(o) ==
    /\ pc = "idle"
    /\ LET b == FullResend(Items)
           r == ApplyDelta(replica[o], baseline[o], b)
       IN  /\ replica' = [replica EXCEPT ![o] = r.Items]
           /\ baseline' = [baseline EXCEPT ![o] = r.baseline]
           /\ obsEvents' = [obsEvents EXCEPT ![o] = r.events]
           /\ obsLast' = [obsLast EXCEPT ![o] =
                             [NoStep EXCEPT
                                 !.op = "FullResend", !.caller = "net",
                                 !.applied = (b.target > baseline[o])]]
           /\ known' = [known EXCEPT ![o] = KeysOf(b.changed)]
    /\ obsLog' = [obsLog EXCEPT ![o] = Logged(@, obsEvents'[o])]
    /\ removedSince' = [removedSince EXCEPT ![o] = {}]
    /\ reAdded' = [reAdded EXCEPT ![o] = {}]
    /\ UNCHANGED <<ack, net>>
    /\ UNCHANGED <<storeVars, cfgVars, versionCap, hashVars, record, authLog>>

NextResend ==
    \/ \E Key \in SyncKeys, Value \in SyncValues : SetData(Key, Value)
    \/ \E Key \in SyncKeys : RemoveData(Key)
    \/ RemoveReturn
    \/ \E o \in Observers : SendDelta(o)
    \/ \E o \in Observers : \E b \in net[o] : Deliver(o, b)
    \/ \E o \in Observers : StaleBaselineResend(o)

\* receipts are not confirmed here: every batch is computed from version 0
SpecResend == InitSync /\ [][NextResend]_vars

\* C15: the full-resend fallback is always safe: after an observer in any
\* prior replica state applies a full-resend delta, its replica equals the
\* authority's current key -> value map, as if it had newly joined.
C15_FullResendGivesAuthorityMap ==
    [][\A o \in Observers :
          (obsLast'[o].op = "FullResend" /\ obsLast[o].op # "FullResend")
              => MapOf(replica'[o]) = MapOf(Items')]_vars

\* the keys a batch lists as removed
RemovedKeys(b) == {b.removed[i] : i \in 1..Len(b.removed)}

\* every Removed event of ev comes before every Added or Updated event
RemovedFirst(ev) ==
    \A i, j \in 1..Len(ev) :
        (i < j /\ ev[j].kind = "Removed") => ev[i].kind = "Removed"

\* the Removed events of ev are one for each removed key that items holds
\* and none for any other key
RemovedExactlyHeld(ev, items, b) ==
    /\ \A i \in 1..Len(ev) :
          ev[i].kind = "Removed" =>
              /\ ev[i].Key \in RemovedKeys(b)
              /\ Holds(items, ev[i].Key)
              /\ \A j \in 1..Len(ev) :
                    (j # i /\ ev[j].kind = "Removed") => ev[j].Key # ev[i].Key
    /\ \A K \in RemovedKeys(b) :
          Holds(items, K) => \E i \in 1..Len(ev) : ev[i] = NotifyKeyRemoved(K)

\* C16: when a delta is applied on an observer, every Removed event of the
\* batch fires before any Added or Updated event of the batch, each
\* Removed(key) fires for an entry the replica still holds, and the removal
\* of a key the replica does not hold fires nothing; so within one batch
\* Removed(K) never follows Added(K).
C16_RemovedEventsFirst ==
    \A o \in Observers : \A b \in net[o] :
        LET ev == ApplyOps(replica[o], b).events
            r  == ApplyDelta(replica[o], baseline[o], b)
        IN  /\ RemovedFirst(ev)
            /\ RemovedExactlyHeld(ev, replica[o], b)
            /\ b.target > baseline[o] => r.events = ev
            /\ RemovedFirst(obsEvents[o])
            /\ \A i \in 1..Len(obsEvents[o]) :
                  obsEvents[o][i].kind = "Removed" =>
                      /\ obsEvents[o][i].Key \in RemovedKeys(b)
                      /\ \/ ~Holds(replica[o], obsEvents[o][i].Key)
                         \/ \E j \in (i + 1)..Len(obsEvents[o]) :
                               /\ obsEvents[o][j].kind # "Removed"
                               /\ obsEvents[o][j].Key = obsEvents[o][i].Key

\* reached: a batch that removes a held key and a key not held, and changes
\* two keys, was applied: one Removed fired, then the Added / Updated events
C16_Witness ==
    \E o \in Observers : \E b \in net[o] :
        /\ obsLast[o].op = "Deliver"
        /\ obsLast[o].applied
        /\ Len(b.removed) = 2
        /\ b.removed[1] # b.removed[2]
        /\ Len(b.changed) = 2
        /\ Len(obsEvents[o]) = 3
        /\ obsEvents[o][1].kind = "Removed"
        /\ obsEvents[o][2].kind # "Removed"
        /\ obsEvents[o][3].kind # "Removed"

\* the replication_version of the entry items holds for Key (0 if none)
VersionOf(items, Key) ==
    LET It == FindByPredicate(items, Key)
    IN  IF It # 0 THEN items[It].version ELSE 0

\* the batch lists (Key, Value) in changed
ListsChanged(d, Key, Value) ==
    \E i \in 1..Len(d.changed) :
        d.changed[i].Key = Key /\ d.changed[i].Value = Value

\* C17: an entry's replication_version only grows: every accepted SetData on
\* a key (creation or replacement of its value) gives the entry a version
\* strictly greater than the one it had and greater than the acknowledged
\* version of every observer, so the entry is in the next delta computed for
\* each observer.
C17_VersionOnlyGrows ==
    /\ [][\A K \in Keys :
             (Holds(Items, K) /\ Holds(Items', K)) =>
                 VersionOf(Items', K) >= VersionOf(Items, K)]_vars
    /\ [][(pc = "idle" /\ pc' = "idle" /\ clock' = clock + 1) =>
             LET K == lastCall'.Key
                 V == lastCall'.Value
             IN  /\ lastCall'.op = "SetData"
                 /\ Holds(Items', K)
                 /\ Find(Items', K) = V
                 /\ VersionOf(Items', K) > VersionOf(Items, K)
                 /\ \A o \in Observers :
                       /\ VersionOf(Items', K) > ack'[o]
                       /\ VersionOf(Items', K) > baseline'[o]
                       /\ ListsChanged(ComputeDelta(Items', removedHist',
                                                    ack'[o], known'[o]),
                                       K, V)]_vars

\* reached: SetData replaced the value of a key whose previous version an
\* observer had acknowledged
C17_Witness ==
    \E o \in Observers :
        /\ pc = "idle"
        /\ lastCall.op = "SetData"
        /\ Holds(prev.Items, lastCall.Key)
        /\ ack[o] >= VersionOf(prev.Items, lastCall.Key)
        /\ VersionOf(Items, lastCall.Key) > ack[o]
        /\ lastCall.Key \in known[o]
        /\ ListsChanged(ComputeDelta(Items, removedHist, ack[o], known[o]),
                        lastCall.Key, lastCall.Value)
        /\ events = <<NotifyKeyUpdated(lastCall.Key, lastCall.Value)>>

\* ------------------------------------------------------------------------
\* Subscribers of OnKeyRemoved that call back into the store
\* ------------------------------------------------------------------------

\* a subscriber, run by Remove's NotifyKeyRemoved, calls SetData on the same
\* component: the whole nested call, with its own notification
CallbackSetData(Key, Value) ==
    /\ pc = "inRemoved"
    /\ clock < versionCap
    /\ Validate(Key, Value, RestrictedKeyType, RestrictedValueType)
    /\ LET r == AddOrUpdate(Items, Key, Value, clock)
       IN  /\ Items' = r.Items
           /\ events' = events \o r.events
    /\ clock' = clock + 1
    /\ truth' = [truth EXCEPT ![Key] = Present(Value)]
    /\ pc' = "reentered"
    /\ authLog' = Logged(authLog, <<events'[Len(events')]>>)
    /\ UNCHANGED <<removedHW, removedHist, remIt, lastCall, prev>>
    /\ UNCHANGED <<cfgVars, versionCap, replicaVars>>
    /\ UNCHANGED <<syncVars, ghostVars, hashVars>>
    /\ UNCHANGED <<record, obsLog>>

\* a subscriber, run by Remove's NotifyKeyRemoved, calls RemoveData on the
\* same component: the whole nested FNeoDataMap::Remove (its own
\* notification, RemoveCurrent, MarkArrayDirty)
CallbackRemoveData(Key) ==
    /\ pc = "inRemoved"
    /\ clock < versionCap
    /\ LET It == FindByPredicate(Items, Key)
       IN  /\ It # 0
           /\ events' = events \o (IF Owner THEN <<NotifyKeyRemoved(Key)>>
                                            ELSE <<>>)
           /\ Items' = RemoveCurrent(Items, It)
    /\ removedHist' = MarkArrayDirty(removedHist, Key, clock)
    /\ clock' = clock + 1
    /\ removedHW' = clock + 1
    /\ truth' = [truth EXCEPT ![Key] = Absent]
    /\ pc' = "reentered"
    /\ authLog' = Logged(authLog, <<NotifyKeyRemoved(Key)>>)
    /\ UNCHANGED <<remIt, lastCall, prev>>
    /\ UNCHANGED <<cfgVars, versionCap, replicaVars>>
    /\ UNCHANGED <<syncVars, ghostVars, hashVars>>
    /\ UNCHANGED <<record, obsLog>>

\* what It.RemoveCurrent() can do when the iterator's index is past the end
\* of the array (TArray::RemoveAt outside its range): stop the program, leave
\* the array as it is, or drop its last entry
RemoveAtOutOfRange(items) ==
    {[Items |-> items, pc |-> "crashed"],
     [Items |-> items, pc |-> "idle"],
     [Items |-> SubSeq(items, 1, Len(items) - 1), pc |-> "idle"]}

\* FNeoDataMap::Remove after the callback returned, when the callback has
\* shortened the array below the iterator's index
RemoveReturnOutOfRange ==
    /\ pc = "reentered"
    /\ remIt \notin 1..Len(Items)
    /\ \E out \in RemoveAtOutOfRange(Items) :
          /\ Items' = out.Items
          /\ pc' = out.pc
    /\ removedHist' = MarkArrayDirty(removedHist, lastCall.Key, clock)
    /\ clock' = clock + 1
    /\ removedHW' = clock + 1
    /\ remIt' = 0
    /\ truth' = [truth EXCEPT ![lastCall.Key] = Absent]
    /\ UNCHANGED <<events, lastCall, prev>>
    /\ UNCHANGED <<cfgVars, versionCap, replicaVars>>
    /\ UNCHANGED <<syncVars, ghostVars, hashVars, logVars>>

NextReentrant ==
    \/ \E Key \in Keys, Value \in Values : SetData(Key, Value)
    \/ \E Key \in Keys : RemoveData(Key)
    \/ \E Key \in Keys, Value \in Values : CallbackSetData(Key, Value)
    \/ \E Key \in Keys : CallbackRemoveData(Key)
    \/ RemoveReturn
    \/ RemoveReturnOutOfRange

SpecReentrant == InitSync /\ [][NextReentrant]_vars

\* Remove is past its callback and returns in this step
RemoveReturns ==
    pc \in {"inRemoved", "reentered"} /\ pc' \in {"idle", "crashed"}

\* C18: remove(K) deletes exactly the entry whose key is K and nothing else,
\* also when a subscriber run synchronously for Removed(K) calls SetData or
\* RemoveData on the same store before remove(K) finishes: no other entry is
\* deleted and no slot outside the array is touched.
C18_RemoveDeletesOnlyItsKey ==
    [][RemoveReturns =>
          /\ remIt \in 1..Len(Items)
          /\ pc' = "idle"
          /\ ~Holds(Items', lastCall.Key)
          /\ \A k \in Keys :
                k # lastCall.Key => GetData(Items', k) = GetData(Items, k)
          /\ Len(Items') = Len(Items)
                             - (IF Holds(Items, lastCall.Key) THEN 1 ELSE 0)]_vars

\* ------------------------------------------------------------------------
\* The authority's store, explored one mutation further
\* ------------------------------------------------------------------------

\* cap of the version counter when the store is explored on its own
MaxStoreVersion == 4

InitFrame ==
    /\ InitStore
    /\ RestrictedKeyType \in {None} \cup Shapes
    /\ RestrictedValueType \in {None} \cup Shapes
    /\ InitObservers
    /\ InitHash
    /\ InitLog(FALSE)
    /\ InitCap(MaxStoreVersion)

SpecFrame == InitFrame /\ [][StoreNext]_vars

\* the entry items holds for Key (a record without the key if none)
EntryOf(items, Key) ==
    LET It == FindByPredicate(items, Key)
    IN  IF It # 0 THEN items[It]
        ELSE [Key |-> NoValue, Value |-> NoValue, version |-> 0]

\* C19: a mutation on key K leaves every other entry untouched and keeps the
\* storage order: SetData on a stored K keeps K at its position in
\* GetKeys(), SetData on a new K appends it at the end, RemoveData(K) keeps
\* the relative order of the remaining keys, and no operation changes the
\* value stored under a key other than K.
C19_FrameAndStorageOrder ==
    LET K    == lastCall.Key
        Was  == GetKeys(prev.Items)
        Now  == GetKeys(Items)
    IN  /\ \A k \in Keys :
              k # K => /\ GetData(Items, k) = GetData(prev.Items, k)
                       /\ EntryOf(Items, k) = EntryOf(prev.Items, k)
        /\ lastCall.op = "none" => Items = prev.Items
        /\ (lastCall.op = "SetData" /\ SchemaViolated(K, lastCall.Value)) =>
              Now = Was
        /\ (lastCall.op = "SetData" /\ ~SchemaViolated(K, lastCall.Value)) =>
              IF Holds(prev.Items, K)
              THEN /\ Now = Was
                   /\ FindByPredicate(Items, K) = FindByPredicate(prev.Items, K)
              ELSE Now = Append(Was, K)
        /\ (lastCall.op = "RemoveData" /\ pc = "inRemoved") => Now = Was
        /\ (lastCall.op = "RemoveData" /\ pc = "idle") =>
              Now = SelectSeq(Was, LAMBDA k : k # K)

\* reached: the first of three stored keys was removed and the other two
\* kept their order
C19_Witness ==
    /\ pc = "idle"
    /\ lastCall.op = "RemoveData"
    /\ Len(prev.Items) = 3
    /\ prev.Items[1].Key = lastCall.Key
    /\ GetKeys(Items) = <<prev.Items[2].Key, prev.Items[3].Key>>

====
